---------------------------- MODULE Spec2Model ----------------------------
(***************************************************************************)
(* easym4b: splitting a chaptered audio file into one file per chapter.    *)
(* The model follows src/easym4b/main.py.  Strings the program looks into  *)
(* (chapter titles, file names) are sequences of one-character strings.    *)
(***************************************************************************)
EXTENDS Integers, Sequences, FiniteSets, TLC

VARIABLES
    pc,                   \* position of main()
    chapters,             \* probe result: the 'chapters' list
    global_metadata,      \* probe result: format.tags
    deduplicate,          \* --deduplicate
    threads,              \* --threads
    output_folder_exists, \* os.path.exists(output_folder) when main() asks
    made_dirs,            \* whether os.makedirs(output_folder) was called
    progress_bar,         \* the shared tqdm bar: whether created, and its n
    deduped_chapters,     \* list of (i, start_time, end_time, title)
    num_digits,           \* zero-pad width
    chapter_args,         \* argument tuples handed to the pool
    queue,                \* the executor's work queue (job numbers, FIFO)
    future,               \* per job: state of its future
    reg,                  \* per job: value of n read inside update()
    runs,                 \* per job: how many times process_chapter started
    passed,               \* per job: what ffmpeg.output received
    written,              \* output files ffmpeg.run has written
    echoed,               \* messages printed with click.echo
    format,               \* --format
    has_cover,            \* whether the source file has a video (image) stream
    title_arg,            \* argument of a single clean_chapter_title call
    title_ret,            \* its result
    deduped_again         \* result of a second pass of the chapter loop

vars == << pc, chapters, global_metadata, deduplicate, threads,
           output_folder_exists, made_dirs, progress_bar, deduped_chapters, num_digits,
           chapter_args, queue, future, reg, runs, passed, written, echoed,
           format, has_cover, title_arg, title_ret, deduped_again >>

-----------------------------------------------------------------------------
(* Bounds of the model *)

MaxTitleLen == 5
MaxChapters == 3
MaxThreads == 2
MaxDedupLen == 3
MaxNamed == 10
LongLen == 101

-----------------------------------------------------------------------------
(* Strings *)

Str(S, n) == UNION { [1..k -> S] : k \in 0..n }

Repeat(c, n) == [k \in 1..n |-> c]

Max(a, b) == IF a >= b THEN a ELSE b

DigitChars == << "0", "1", "2", "3", "4", "5", "6", "7", "8", "9" >>

RECURSIVE DecimalDigits(_)
\* str(n) for n >= 0
DecimalDigits(n) ==
    IF n < 10 THEN << DigitChars[n + 1] >>
    ELSE Append(DecimalDigits(n \div 10), DigitChars[(n % 10) + 1])

\* format(n, "0{width}d"): zero-filled on the left up to width, never cut
FormatZeroPad(n, width) ==
    LET d == DecimalDigits(n)
    IN  Repeat("0", Max(0, width - Len(d))) \o d

IsSpace(c) == c = " "

\* The characters of s at the positions in keep, in order
AtPositions(s, keep) ==
    IF keep = 1..Len(s) THEN s
    ELSE LET pairs == [k \in 1..Len(s) |-> << k, s[k] >>]
             Kept(p) == p[1] \in keep
             sel == SelectSeq(pairs, Kept)
         IN  [k \in 1..Len(sel) |-> sel[k][2]]

\* how many characters of the set cs s starts with
LeadingRun(s, cs) ==
    CHOOSE k \in 0..Len(s) :
        /\ \A i \in 1..k : s[i] \in cs
        /\ k = Len(s) \/ s[k + 1] \notin cs

\* how many characters of the set cs s ends with
TrailingRun(s, cs) ==
    CHOOSE k \in 0..Len(s) :
        /\ \A i \in (Len(s) - k + 1)..Len(s) : s[i] \in cs
        /\ k = Len(s) \/ s[Len(s) - k] \notin cs

\* str.strip(cs)
StripChars(s, cs) ==
    LET l == LeadingRun(s, cs)
    IN  IF l = Len(s) THEN << >>
        ELSE SubSeq(s, l + 1, Len(s) - TrailingRun(s, cs))

\* str.strip()
strip(s) == StripChars(s, {" "})

-----------------------------------------------------------------------------
(* clean_chapter_title *)

\* position of the first ")" after position q, 0 when there is none
FirstClose(s, q) ==
    LET hits == { j \in (q + 1)..Len(s) : s[j] = ")" }
    IN  IF hits = {} THEN 0 ELSE CHOOSE j \in hits : \A h \in hits : j <= h

\* position of the last ")" before position q, 0 when there is none
LastClose(s, q) ==
    LET hits == { j \in 1..(q - 1) : s[j] = ")" }
    IN  IF hits = {} THEN 0 ELSE CHOOSE j \in hits : \A h \in hits : j >= h

\* The "(" at which a match of  \s*\([^)]*\)  has its parenthesis: a match
\* runs from its whitespace over "(" to the first ")" after it, so it ends
\* at a ")", and the scan goes on behind that ")": the next match has the
\* first "(" behind it that still has a ")" to its right.
Opens(s, q) ==
    /\ s[q] = "("
    /\ FirstClose(s, q) # 0
    /\ \A r \in (LastClose(s, q) + 1)..(q - 1) : s[r] # "("

\* The positions re.sub removes: for each such "(", the whitespace run just
\* before it, and everything up to the first ")" after it.
Matched(s) ==
    LET opening == { q \in 1..Len(s) : Opens(s, q) }
    IN  UNION { { p \in 1..FirstClose(s, q) :
                    \/ p >= q
                    \/ \A r \in p..(q - 1) : IsSpace(s[r]) } : q \in opening }

\* re.sub(r'\s*\([^)]*\)', '', s): leftmost non-overlapping matches removed
re_sub(s) == AtPositions(s, (1..Len(s)) \ Matched(s))

clean_chapter_title(t) == strip(re_sub(t))

-----------------------------------------------------------------------------
(* The chapter loop of main(): fallback title, cleaning, deduplication *)

Range(f) == { f[x] : x \in DOMAIN f }

NoTags == << >>

\* What the probe reports for the chapter at position k (1-based): its time
\* range and its tags.  Chapter k covers second k-1 to second k.
Chapter(k, tags) == [start_time |-> k - 1, end_time |-> k, tags |-> tags]

ChapterLists(tagChoices, n) ==
    UNION { { [k \in 1..m |-> Chapter(k, ts[k])] : ts \in [1..m -> tagChoices] } :
            m \in 0..n }

ChapterPrefix == << "C", "h", "a", "p", "t", "e", "r", "_" >>

\* chapter.get('tags', {}).get('title', f'Chapter_{i+1:03d}'), i 0-based
ChapterTitle(i, chapter) ==
    IF "title" \in DOMAIN chapter.tags THEN chapter.tags.title
    ELSE ChapterPrefix \o FormatZeroPad(i + 1, 3)

\* A value no title takes: Python's None
None == << "None" >>

\* A mutant: the tuple keeps the chapter's own title tag, None when absent
SurvivorTupleRawTag(i, chapter, title) ==
    [chapter_index |-> i, start_time |-> chapter.start_time,
     end_time |-> chapter.end_time,
     title |-> IF "title" \in DOMAIN chapter.tags THEN chapter.tags.title ELSE None]

\* (i, start_time, end_time, title)
SurvivorTuple(i, chapter, title) ==
    [chapter_index |-> i, start_time |-> chapter.start_time,
     end_time |-> chapter.end_time, title |-> title]

\* A mutant: the emptiness test is missing
KeepsUnseenOnly(ct, processed_titles) == ct \notin processed_titles

\* clean_title and clean_title not in processed_titles
Keeps(ct, processed_titles) == ct # << >> /\ ct \notin processed_titles

RECURSIVE ChapterLoop(_, _, _, _, _)
\* for i, chapter in enumerate(chapters): ...   (k = i + 1)
ChapterLoop(chs, dedup, k, processed_titles, acc) ==
    IF k > Len(chs) THEN acc
    ELSE LET chapter == chs[k]
             title == ChapterTitle(k - 1, chapter)
             ct == clean_chapter_title(title)
             tuple == SurvivorTuple(k - 1, chapter, title)
         IN  IF dedup
             THEN IF Keeps(ct, processed_titles)
                  THEN ChapterLoop(chs, dedup, k + 1, processed_titles \cup {ct},
                                   Append(acc, tuple))
                  ELSE ChapterLoop(chs, dedup, k + 1, processed_titles, acc)
             ELSE ChapterLoop(chs, dedup, k + 1, processed_titles, Append(acc, tuple))

Dedupe(chs, dedup) == ChapterLoop(chs, dedup, 1, {}, << >>)

\* The surviving tuples read back as a chapter list
AsChapters(tuples) ==
    [k \in 1..Len(tuples) |->
        [start_time |-> tuples[k].start_time, end_time |-> tuples[k].end_time,
         tags |-> IF tuples[k].title = None THEN NoTags
                  ELSE [title |-> tuples[k].title]]]

-----------------------------------------------------------------------------
(* Numbering and naming of the surviving chapters *)

RECURSIVE CeilLog10(_)
\* math.ceil(math.log10(m)) for an integer m >= 1
CeilLog10(m) == IF m <= 1 THEN 0 ELSE 1 + CeilLog10((m + 9) \div 10)

\* A mutant: the width is taken from the count without the + 1
NumDigitsOfCount(n) == CeilLog10(Max(n, 1))

\* math.ceil(math.log10(len(deduped_chapters) + 1))
NumDigits(n) == CeilLog10(n + 1)

\* A mutant: the title goes out without its number
UnnumberedTitle(i, width, title) == title

\* f"{i+1:0{num_digits}d} - {title}", i 0-based
numbered_title(i, width, title) ==
    FormatZeroPad(i + 1, width) \o << " ", "-", " " >> \o title

UpperChars == << "A", "B", "C", "D", "E", "F", "G", "H", "I", "J", "K", "L", "M",
                 "N", "O", "P", "Q", "R", "S", "T", "U", "V", "W", "X", "Y", "Z" >>

LowerChars == << "a", "b", "c", "d", "e", "f", "g", "h", "i", "j", "k", "l", "m",
                 "n", "o", "p", "q", "r", "s", "t", "u", "v", "w", "x", "y", "z" >>

LowerOf == [c \in Range(UpperChars) |->
               LowerChars[CHOOSE k \in DOMAIN UpperChars : UpperChars[k] = c]]

\* str.lower() on one character
Lower(c) == IF c \in DOMAIN LowerOf THEN LowerOf[c] ELSE c

\* the characters slugify lets through: [-a-z0-9]
SlugChars == Range(LowerChars) \cup Range(DigitChars) \cup {"-"}

\* re.sub('-{2,}', '-', s): of a run of dashes the first one stays
CollapseDashes(s) ==
    AtPositions(s, { k \in 1..Len(s) : ~ (s[k] = "-" /\ k > 1 /\ s[k - 1] = "-") })

\* str.strip('-')
StripDashes(s) == StripChars(s, {"-"})

\* smart_truncate(s, max_length): s[:max_length].strip('-') when s is too long
SmartTruncate(s, max_length) ==
    IF Len(s) < max_length THEN s ELSE StripDashes(SubSeq(s, 1, max_length))

\* slugify(text, max_length=...): lower case, every run of other characters
\* becomes one "-", dashes are stripped at both ends, then the cut
slugify(text, max_length) ==
    LET Slugged(c) == IF Lower(c) \in SlugChars THEN Lower(c) ELSE "-"
        dashed == [k \in 1..Len(text) |-> Slugged(text[k])]
    IN  SmartTruncate(StripDashes(CollapseDashes(dashed)), max_length)

max_length == 100

sample_rate == 44100

FormatChars(fmt) ==
    CASE fmt = "mp3" -> << "m", "p", "3" >>
      [] fmt = "wav" -> << "w", "a", "v" >>
      [] fmt = "m4a" -> << "m", "4", "a" >>
      [] fmt = "m4b" -> << "m", "4", "b" >>

\* os.path.join(output_folder, f"{slugified_title}.{format}"): the name inside
\* the one output folder of the run
output_file(slugified_title, fmt) == slugified_title \o << "." >> \o FormatChars(fmt)

\* One round of the second loop of main(): the argument tuple of survivor k
\* (k = i + 1).  input_file and progress_bar are the same for every job.
JobArgs(k, tuple, width, fmt, gm) ==
    [output_file |-> output_file(slugify(numbered_title(k - 1, width, tuple.title),
                                         max_length), fmt),
     start_time |-> tuple.start_time,
     end_time |-> tuple.end_time,
     format |-> fmt,
     chapter_title |-> tuple.title,
     global_metadata |-> gm,
     sample_rate |-> sample_rate]

AllJobArgs(tuples, width, fmt, gm) ==
    [k \in 1..Len(tuples) |-> JobArgs(k, tuples[k], width, fmt, gm)]

-----------------------------------------------------------------------------
(* process_chapter: the arguments given to ffmpeg.output *)

\* A dict display: a key written again replaces the earlier entry
DictLiteral(pairs) ==
    [key \in { pairs[i][1] : i \in DOMAIN pairs } |->
        pairs[CHOOSE i \in DOMAIN pairs :
                 /\ pairs[i][1] = key
                 /\ \A j \in DOMAIN pairs : pairs[j][1] = key => j <= i][2]]

\* dict.update
DictUpdate(d, e) ==
    [key \in DOMAIN d \cup DOMAIN e |-> IF key \in DOMAIN e THEN e[key] ELSE d[key]]

\* dict.get(key, default)
DictGet(d, key, default) == IF key \in DOMAIN d THEN d[key] ELSE default

\* f"{key}={value}"
Metadata(key, value) == [key |-> key, value |-> value]

CodecArgs(fmt) ==
    CASE fmt = "mp3" -> [acodec |-> "libmp3lame", ab |-> "128k", q |-> 2]
      [] fmt \in {"m4a", "m4b"} -> ("acodec" :> "aac") @@ ("b:a" :> "128k")
      [] fmt = "wav" -> [acodec |-> "pcm_s16le"]

output_args(args, cover) ==
    LET base == DictLiteral(<<
                  << "ar", args.sample_rate >>,
                  << "metadata", Metadata("title", args.chapter_title) >>,
                  << "metadata", Metadata("artist",
                         DictGet(args.global_metadata, "artist", << >>)) >>,
                  << "metadata", Metadata("album",
                         DictGet(args.global_metadata, "album", << >>)) >> >>)
        coded == DictUpdate(base, CodecArgs(args.format))
    IN  IF cover THEN DictUpdate(coded, "c:v" :> "copy") ELSE coded

-----------------------------------------------------------------------------
(* main(): the whole run, with the thread pool *)

Echo(msg, arg) == [msg |-> msg, arg |-> arg]

NoBar == [created |-> FALSE, total |-> 0, n |-> 0]

\* Nothing computed, nothing submitted, nothing printed
Untouched ==
    /\ made_dirs = FALSE
    /\ progress_bar = NoBar
    /\ deduped_chapters = << >>
    /\ num_digits = 0
    /\ chapter_args = << >>
    /\ queue = << >>
    /\ future = << >>
    /\ reg = << >>
    /\ runs = << >>
    /\ passed = << >>
    /\ written = {}
    /\ echoed = << >>
    /\ title_arg = << >>
    /\ title_ret = << >>
    /\ deduped_again = << >>

PoolTags == { NoTags, [title |-> << "A", " ", "(", "x", ")" >>] }

MetadataChoices ==
    { << >>, [artist |-> << "X" >>, album |-> << "Y" >>, genre |-> << "Z" >>] }

Formats == { "mp3", "wav", "m4a", "m4b" }

\* Every chapter list and pool size with the default format and a source
\* without cover, and every format and cover with a single chapter
Init ==
    /\ pc = "main"
    /\ global_metadata \in MetadataChoices
    /\ deduplicate \in BOOLEAN
    /\ output_folder_exists \in BOOLEAN
    /\ \/ /\ chapters \in ChapterLists(PoolTags, MaxChapters)
          /\ threads \in 1..MaxThreads
          /\ format = "mp3"
          /\ has_cover = FALSE
       \/ /\ chapters \in ChapterLists(PoolTags, 1)
          /\ threads = 1
          /\ format \in Formats
          /\ has_cover \in BOOLEAN
    /\ Untouched

\* lines 74-77: the probe, and the return when it reports no chapters
Main_GetFileInfo ==
    /\ pc = "main"
    /\ IF chapters = << >>
       THEN /\ echoed' = Append(echoed, Echo("No chapter information found in the M4B file.", << >>))
            /\ pc' = "returned"
       ELSE /\ pc' = "check_folder"
            /\ UNCHANGED echoed
    /\ UNCHANGED << chapters, global_metadata, deduplicate, threads,
                    output_folder_exists, made_dirs, progress_bar,
                    deduped_chapters, num_digits, chapter_args, queue, future,
                    reg, runs, passed, written, format, has_cover, title_arg,
                    title_ret, deduped_again >>

\* A mutant: the return after the warning is missing
FolderCheckFallsThrough(exists) == "build"

\* lines 79-83: where main() goes after looking at the output folder
AfterFolderCheck(exists) == IF exists THEN "returned" ELSE "build"

Main_CheckFolder ==
    /\ pc = "check_folder"
    /\ IF ~ output_folder_exists
       THEN /\ made_dirs' = TRUE
            /\ UNCHANGED echoed
       ELSE /\ echoed' = Append(echoed, Echo("Warning: Output folder already exists.", << >>))
            /\ UNCHANGED made_dirs
    /\ pc' = AfterFolderCheck(output_folder_exists)
    /\ UNCHANGED << chapters, global_metadata, deduplicate, threads,
                    output_folder_exists, progress_bar, deduped_chapters,
                    num_digits, chapter_args, queue, future, reg, runs, passed,
                    written, format, has_cover, title_arg, title_ret,
                    deduped_again >>

\* lines 85-110: the progress bar, the chapter loop, the width, the job loop
Main_BuildJobs ==
    /\ pc = "build"
    /\ progress_bar' = [created |-> TRUE, total |-> Len(chapters), n |-> 0]
    /\ deduped_chapters' = Dedupe(chapters, deduplicate)
    /\ num_digits' = NumDigits(Len(deduped_chapters'))
    /\ chapter_args' = AllJobArgs(deduped_chapters', num_digits', format, global_metadata)
    /\ pc' = "map"
    /\ UNCHANGED << chapters, global_metadata, deduplicate, threads,
                    output_folder_exists, made_dirs, queue, future, reg, runs,
                    passed, written, echoed, format, has_cover, title_arg,
                    title_ret, deduped_again >>

\* lines 112-113: executor.map submits one work item per argument tuple, in
\* order, and returns an iterator that main() drops
Main_Map ==
    /\ pc = "map"
    /\ queue' = [j \in 1..Len(chapter_args) |-> j]
    /\ future' = [j \in 1..Len(chapter_args) |-> "pending"]
    /\ reg' = [j \in 1..Len(chapter_args) |-> 0]
    /\ runs' = [j \in 1..Len(chapter_args) |-> 0]
    /\ passed' = [j \in 1..Len(chapter_args) |-> << >>]
    /\ pc' = "pool"
    /\ UNCHANGED << chapters, global_metadata, deduplicate, threads,
                    output_folder_exists, made_dirs, progress_bar,
                    deduped_chapters, num_digits, chapter_args, written, echoed,
                    format, has_cover, title_arg, title_ret, deduped_again >>

InFlight == { j \in DOMAIN future : future[j] \in {"running", "update", "update_write"} }

\* A worker thread takes the oldest queued work item; the pool has at most
\* max_workers threads
Worker_Take(j) ==
    /\ pc = "pool"
    /\ queue # << >>
    /\ j = Head(queue)
    /\ Cardinality(InFlight) < threads
    /\ queue' = Tail(queue)
    /\ future' = [future EXCEPT ![j] = "running"]
    /\ runs' = [runs EXCEPT ![j] = @ + 1]
    /\ UNCHANGED << pc, chapters, global_metadata, deduplicate, threads,
                    output_folder_exists, made_dirs, progress_bar,
                    deduped_chapters, num_digits, chapter_args, reg, passed,
                    written, echoed, format, has_cover, title_arg, title_ret,
                    deduped_again >>

\* process_chapter, lines 29-60: the cover probe raises, or ffmpeg.run raises
\* after ffmpeg.output got its arguments, or the file is written.  A raised
\* exception is stored in the job's future.
Worker_Extract(j) ==
    /\ pc = "pool"
    /\ j \in DOMAIN future
    /\ future[j] = "running"
    /\ \E outcome \in {"probe_raises", "run_raises", "written"} :
          /\ passed' = IF outcome = "probe_raises" THEN passed
                       ELSE [passed EXCEPT ![j] = output_args(chapter_args[j], has_cover)]
          /\ written' = IF outcome = "written"
                        THEN written \cup { chapter_args[j].output_file }
                        ELSE written
          /\ future' = [future EXCEPT ![j] =
                           IF outcome = "written" THEN "update" ELSE "exception"]
    /\ UNCHANGED << pc, chapters, global_metadata, deduplicate, threads,
                    output_folder_exists, made_dirs, progress_bar,
                    deduped_chapters, num_digits, chapter_args, queue, reg, runs,
                    echoed, format, has_cover, title_arg, title_ret,
                    deduped_again >>

\* progress_bar.update(1), line 61: tqdm's update does  self.n += n  with no
\* lock held, and process_chapter takes none: the read of n ...
Worker_UpdateRead(j) ==
    /\ pc = "pool"
    /\ j \in DOMAIN future
    /\ future[j] = "update"
    /\ reg' = [reg EXCEPT ![j] = progress_bar.n]
    /\ future' = [future EXCEPT ![j] = "update_write"]
    /\ UNCHANGED << pc, chapters, global_metadata, deduplicate, threads,
                    output_folder_exists, made_dirs, progress_bar,
                    deduped_chapters, num_digits, chapter_args, queue, runs,
                    passed, written, echoed, format, has_cover, title_arg,
                    title_ret, deduped_again >>

\* ... and the write of n + 1; process_chapter returns
Worker_UpdateWrite(j) ==
    /\ pc = "pool"
    /\ j \in DOMAIN future
    /\ future[j] = "update_write"
    /\ progress_bar' = [progress_bar EXCEPT !.n = reg[j] + 1]
    /\ future' = [future EXCEPT ![j] = "finished"]
    /\ UNCHANGED << pc, chapters, global_metadata, deduplicate, threads,
                    output_folder_exists, made_dirs, deduped_chapters, num_digits,
                    chapter_args, queue, reg, runs, passed, written, echoed,
                    format, has_cover, title_arg, title_ret, deduped_again >>

\* A mutant: the executor is shut down without waiting
ShutdownNoWait == TRUE

\* Leaving the with block: executor.shutdown(wait=True) returns once the
\* queue is empty and every worker has ended its work item
ShutdownReturns ==
    /\ queue = << >>
    /\ \A j \in DOMAIN future : future[j] \in {"finished", "exception"}

\* The exceptions main() collects: it never reads the iterator of line 113
failures == {}

\* lines 112-123: the end of the with block, then the summary
Main_Summary ==
    /\ pc = "pool"
    /\ ShutdownReturns
    /\ echoed' = echoed \o
          << Echo("Successfully processed chapters.", << Len(chapters) >>),
             IF deduplicate
             THEN Echo("After deduplication, unique chapters remain", << Len(deduped_chapters) >>)
             ELSE Echo("All chapters saved", << Len(deduped_chapters) >>) >>
    /\ pc' = "done"
    /\ UNCHANGED << chapters, global_metadata, deduplicate, threads,
                    output_folder_exists, made_dirs, progress_bar,
                    deduped_chapters, num_digits, chapter_args, queue, future,
                    reg, runs, passed, written, format, has_cover, title_arg,
                    title_ret, deduped_again >>

Next ==
    \/ Main_GetFileInfo
    \/ Main_CheckFolder
    \/ Main_BuildJobs
    \/ Main_Map
    \/ \E j \in 1..(MaxChapters + 1) : Worker_Take(j)
    \/ \E j \in 1..(MaxChapters + 1) : Worker_Extract(j)
    \/ \E j \in 1..(MaxChapters + 1) : Worker_UpdateRead(j)
    \/ \E j \in 1..(MaxChapters + 1) : Worker_UpdateWrite(j)
    \/ Main_Summary

Spec == Init /\ [][Next]_vars

-----------------------------------------------------------------------------
(* clean_chapter_title alone, on every title over a small alphabet *)

TitleAlphabet == { "a", " ", "(", ")" }

InitClean ==
    /\ pc = "call"
    /\ title_arg \in Str(TitleAlphabet, MaxTitleLen)
    /\ chapters = << >>
    /\ global_metadata = << >>
    /\ deduplicate = TRUE
    /\ threads = 1
    /\ output_folder_exists = FALSE
    /\ format = "mp3"
    /\ has_cover = FALSE
    /\ made_dirs = FALSE
    /\ progress_bar = NoBar
    /\ deduped_chapters = << >>
    /\ num_digits = 0
    /\ chapter_args = << >>
    /\ queue = << >>
    /\ future = << >>
    /\ reg = << >>
    /\ runs = << >>
    /\ passed = << >>
    /\ written = {}
    /\ echoed = << >>
    /\ title_ret = << >>
    /\ deduped_again = << >>

Clean_Call ==
    /\ pc = "call"
    /\ title_ret' = clean_chapter_title(title_arg)
    /\ pc' = "returned"
    /\ UNCHANGED << chapters, global_metadata, deduplicate, threads,
                    output_folder_exists, made_dirs, progress_bar,
                    deduped_chapters, num_digits, chapter_args, queue, future,
                    reg, runs, passed, written, echoed, format, has_cover,
                    title_arg, deduped_again >>

NextClean == Clean_Call

SpecClean == InitClean /\ [][NextClean]_vars

-----------------------------------------------------------------------------
(* The chapter loop alone, run on a chapter list and then on its own result *)

DedupTags ==
    { NoTags,
      [title |-> << >>],
      [title |-> << "A" >>],
      [title |-> << "A", " ", "(", "x", ")" >>],
      [title |-> << "(", "x", ")" >>],
      [title |-> ChapterPrefix \o << "0", "0", "2" >>] }

InitLoop ==
    /\ pc = "loop"
    /\ chapters \in ChapterLists(DedupTags, MaxDedupLen)
    /\ deduplicate \in BOOLEAN
    /\ global_metadata = << >>
    /\ threads = 1
    /\ output_folder_exists = FALSE
    /\ format = "mp3"
    /\ has_cover = FALSE
    /\ Untouched

\* lines 87-102
Loop_First ==
    /\ pc = "loop"
    /\ deduped_chapters' = Dedupe(chapters, deduplicate)
    /\ pc' = "again"
    /\ UNCHANGED << chapters, global_metadata, deduplicate, threads,
                    output_folder_exists, made_dirs, progress_bar, num_digits,
                    chapter_args, queue, future, reg, runs, passed, written,
                    echoed, format, has_cover, title_arg, title_ret,
                    deduped_again >>

\* the same loop over the survivors
Loop_Again ==
    /\ pc = "again"
    /\ deduped_again' = Dedupe(AsChapters(deduped_chapters), deduplicate)
    /\ pc' = "done"
    /\ UNCHANGED << chapters, global_metadata, deduplicate, threads,
                    output_folder_exists, made_dirs, progress_bar,
                    deduped_chapters, num_digits, chapter_args, queue, future,
                    reg, runs, passed, written, echoed, format, has_cover,
                    title_arg, title_ret >>

NextLoop == Loop_First \/ Loop_Again

SpecLoop == InitLoop /\ [][NextLoop]_vars

-----------------------------------------------------------------------------
(* Numbering and naming alone, on long chapter lists and long titles *)

LongTitle == Repeat("a", LongLen)

NamingTags == { [title |-> << "A" >>], [title |-> LongTitle] }

InitNaming ==
    /\ pc = "loop"
    /\ chapters \in ChapterLists(NamingTags, MaxNamed)
    /\ deduplicate \in BOOLEAN
    /\ global_metadata = << >>
    /\ threads = 1
    /\ output_folder_exists = FALSE
    /\ format = "mp3"
    /\ has_cover = FALSE
    /\ Untouched

\* lines 87-104: the survivors and the width
Naming_Survivors ==
    /\ pc = "loop"
    /\ deduped_chapters' = Dedupe(chapters, deduplicate)
    /\ num_digits' = NumDigits(Len(deduped_chapters'))
    /\ pc' = "name"
    /\ UNCHANGED << chapters, global_metadata, deduplicate, threads,
                    output_folder_exists, made_dirs, progress_bar, chapter_args,
                    queue, future, reg, runs, passed, written, echoed, format,
                    has_cover, title_arg, title_ret, deduped_again >>

\* lines 106-110: one round of the job loop
Naming_Job ==
    /\ pc = "name"
    /\ Len(chapter_args) < Len(deduped_chapters)
    /\ LET k == Len(chapter_args) + 1
       IN  chapter_args' = Append(chapter_args,
              JobArgs(k, deduped_chapters[k], num_digits, format, global_metadata))
    /\ UNCHANGED << pc, chapters, global_metadata, deduplicate, threads,
                    output_folder_exists, made_dirs, progress_bar,
                    deduped_chapters, num_digits, queue, future, reg, runs,
                    passed, written, echoed, format, has_cover, title_arg,
                    title_ret, deduped_again >>

NextNaming == Naming_Survivors \/ Naming_Job

SpecNaming == InitNaming /\ [][NextNaming]_vars

-----------------------------------------------------------------------------
(* Properties *)

\* The title of chapter k (1-based) with the fallback applied, and its key
TitleAt(k) == ChapterTitle(k - 1, chapters[k])

KeyAt(k) == clean_chapter_title(TitleAt(k))

\* The positions the specification lets survive
Survivors ==
    IF deduplicate
    THEN { k \in 1..Len(chapters) :
             /\ KeyAt(k) # << >>
             /\ \A j \in 1..(k - 1) : KeyAt(j) # KeyAt(k) }
    ELSE 1..Len(chapters)

\* C1: the chapter loop returns the chapters at the surviving positions, each
\* once, in input order and with their time range and (fallback) title
\* unchanged.  With deduplication these are the chapters whose cleaned title
\* is non-empty and differs from the cleaned title of every earlier chapter;
\* without it, all of them.
C1_DedupeKeepsFirstOccurrences ==
    pc # "loop" =>
        /\ Len(deduped_chapters) = Cardinality(Survivors)
        /\ \A m \in 1..Len(deduped_chapters) :
              LET k == deduped_chapters[m].chapter_index + 1
              IN  /\ k \in Survivors
                  /\ deduped_chapters[m].start_time = chapters[k].start_time
                  /\ deduped_chapters[m].end_time = chapters[k].end_time
                  /\ deduped_chapters[m].title = TitleAt(k)
                  /\ m > 1 => deduped_chapters[m - 1].chapter_index < k - 1

\* C1 witness: with deduplication on, a later duplicate and a chapter with an
\* empty cleaned title were dropped and a chapter without a title tag kept
C1_Witness ==
    /\ pc = "done"
    /\ deduplicate
    /\ \E i, j, k, l \in 1..Len(chapters) :
          /\ i < j /\ KeyAt(i) = KeyAt(j) /\ KeyAt(i) # << >>
          /\ KeyAt(k) = << >>
          /\ chapters[l].tags = NoTags /\ l \in Survivors
    /\ Len(deduped_chapters) = Cardinality(Survivors)

\* What a list of survivors says about the chapters: time range and title
Content(tuples) ==
    [m \in 1..Len(tuples) |->
        << tuples[m].start_time, tuples[m].end_time, tuples[m].title >>]

\* C7: with deduplication on, the chapter loop run on its own result returns
\* the same chapters, also when chapters got the fallback title Chapter_NNN.
C7_DedupeIdempotent ==
    (pc = "done" /\ deduplicate) => Content(deduped_again) = Content(deduped_chapters)

\* C7 witness: a chapter without a title tag survived and stands at another
\* position in the result than in the input; the second pass has run
C7_Witness ==
    /\ pc = "done"
    /\ deduplicate
    /\ \E m \in 1..Len(deduped_chapters) :
          /\ deduped_chapters[m].chapter_index # m - 1
          /\ chapters[deduped_chapters[m].chapter_index + 1].tags = NoTags
    /\ Content(deduped_again) = Content(deduped_chapters)

\* Whether the parentheses of s are balanced
Balanced(s) ==
    LET Depth(k) == Cardinality({ i \in 1..k : s[i] = "(" })
                    - Cardinality({ i \in 1..k : s[i] = ")" })
    IN  /\ \A k \in 1..Len(s) : Depth(k) >= 0
        /\ Depth(Len(s)) = 0

\* C8: for a title with balanced parentheses (nested and adjacent groups
\* included) clean_chapter_title returns a string with no "(" and no ")" and
\* with no whitespace at either end.
C8_CleanRemovesAllParentheses ==
    (pc = "returned" /\ Balanced(title_arg)) =>
        /\ \A k \in 1..Len(title_ret) : title_ret[k] \notin { "(", ")" }
        /\ title_ret # << >> => ~ IsSpace(title_ret[1]) /\ ~ IsSpace(title_ret[Len(title_ret)])

\* C5: the output files of the jobs of one batch are pairwise different, also
\* when survivors share a raw title and when the slug is cut at 100 characters.
C5_OutputFilesDistinct ==
    \A i, j \in DOMAIN chapter_args :
        i # j => chapter_args[i].output_file # chapter_args[j].output_file

\* C5 witness: without deduplication, two jobs carry the same long title and
\* both file names were cut
C5_Witness ==
    /\ ~ deduplicate
    /\ \E i, j \in DOMAIN chapter_args :
          /\ i # j
          /\ chapter_args[i].chapter_title = LongTitle
          /\ chapter_args[j].chapter_title = LongTitle
          /\ Len(chapter_args[i].output_file) = max_length + 4
          /\ Len(chapter_args[j].output_file) = max_length + 4

\* The characters in code point order
CharOrder == << " ", "(", ")", "-", "." >> \o DigitChars \o UpperChars \o << "_" >> \o LowerChars

CharRank == [c \in Range(CharOrder) |-> CHOOSE k \in DOMAIN CharOrder : CharOrder[k] = c]

\* a < b as Python compares strings
LexLess(a, b) ==
    \E k \in 1..(Len(a) + 1) :
        /\ k <= Len(b)
        /\ \A i \in 1..(k - 1) : a[i] = b[i]
        /\ k = Len(a) + 1 \/ CharRank[a[k]] < CharRank[b[k]]

DisplayTitle(k) == numbered_title(k - 1, num_digits, deduped_chapters[k].title)

\* C6: the jobs are numbered 1..n in survivor order; the width is that of
\* ceil(log10(n + 1)), which is the number of digits of n: 1 for 9 survivors,
\* 2 for 10; every number 1..n takes exactly width characters when padded,
\* so the display titles sort as strings in chapter order.
C6_WidthAndNumbering ==
    pc = "name" =>
        LET n == Len(deduped_chapters)
        IN  /\ n = 9 => num_digits = 1
            /\ n = 10 => num_digits = 2
            /\ n >= 1 => num_digits = Len(DecimalDigits(n))
            /\ \A k \in 1..n : Len(FormatZeroPad(k, num_digits)) = num_digits
            /\ \A k \in DOMAIN chapter_args :
                  /\ SubSeq(chapter_args[k].output_file, 1, num_digits)
                        = FormatZeroPad(k, num_digits)
                  /\ chapter_args[k].chapter_title = deduped_chapters[k].title
                  /\ chapter_args[k].start_time = deduped_chapters[k].start_time
            /\ \A i, j \in 1..n : i < j => LexLess(DisplayTitle(i), DisplayTitle(j))

\* C6 witness: ten survivors, all ten jobs built, width 2
C6_Witness ==
    /\ pc = "name"
    /\ Len(deduped_chapters) = 10
    /\ Len(chapter_args) = 10
    /\ num_digits = 2

Succeeded == { j \in DOMAIN future : future[j] = "finished" }

Failed == { j \in DOMAIN future : future[j] = "exception" }

\* C2: when the run is over, the jobs counted as succeeded and the jobs in
\* the failures collection add up to the jobs submitted, and every job whose
\* extraction raised is in the failures collection.
C2_SucceededPlusFailedIsSubmitted ==
    pc = "done" =>
        /\ progress_bar.n + Cardinality(failures) = Len(chapter_args)
        /\ Failed \subseteq failures

\* C3: a failing job cancels nothing: no job starts twice, and when main()
\* has left the pool every submitted job was started exactly once and has
\* ended, by returning or by raising.
C3_NotFailFast ==
    /\ \A j \in DOMAIN runs : runs[j] <= 1
    /\ pc = "done" =>
          /\ DOMAIN future = DOMAIN chapter_args
          /\ \A j \in DOMAIN future :
                /\ runs[j] = 1
                /\ future[j] \in { "finished", "exception" }

\* C3 witness: with one worker thread, a job raised while a later job was
\* still queued, and the later job has run to its end
C3_Witness ==
    /\ pc = "done"
    /\ threads = 1
    /\ \E j, k \in DOMAIN future :
          j < k /\ future[j] = "exception" /\ future[k] = "finished" /\ runs[k] = 1

\* C4: when all jobs have ended, the progress counter is the number of jobs
\* that succeeded, under every interleaving of the worker threads.
C4_CounterCountsSuccesses ==
    pc = "done" => progress_bar.n = Cardinality(Succeeded)

\* C9: when the probe reports no chapters or the output folder exists, main()
\* reports it and does nothing else: no folder made, no job built or
\* submitted, no call of the engine, no file written, no progress counted.
C9_PreconditionFailureDoesNothing ==
    (chapters = << >> \/ output_folder_exists) =>
        /\ pc \in { "main", "check_folder", "returned" }
        /\ ~ made_dirs
        /\ deduped_chapters = << >> /\ chapter_args = << >>
        /\ queue = << >> /\ future = << >> /\ passed = << >>
        /\ written = {}
        /\ progress_bar.n = 0
        /\ pc = "returned" => Len(echoed) = 1

\* C9 witness: chapters were found, the folder exists, main() has returned
C9_Witness ==
    /\ pc = "returned"
    /\ chapters # << >>
    /\ output_folder_exists
    /\ Len(echoed) = 1

\* The tags ffmpeg.output received for a job
TagsPassed(j) ==
    IF "metadata" \in DOMAIN passed[j] THEN { passed[j]["metadata"] } ELSE {}

\* C10: every job hands the engine every global tag of the source file and a
\* title tag equal to its display title.
C10_JobCarriesAllTags ==
    \A j \in DOMAIN passed :
        passed[j] # << >> =>
            /\ \A key \in DOMAIN global_metadata :
                  Metadata(key, global_metadata[key]) \in TagsPassed(j)
            /\ Metadata("title", DisplayTitle(j)) \in TagsPassed(j)

=============================================================================
